---------------------------- MODULE Spec2Model ----------------------------
(***************************************************************************)
(* A model of parallel.py: the sequential reverse-reachable-set walk, the  *)
(* KPT estimator, find_k_seeds, and node_selection (batch loop and greedy  *)
(* selection).                                                             *)
(*                                                                         *)
(* Python lists are 0-based and sequences here are 1-based: graph[1][v]    *)
(* is g.rows[v + 1], and the slice graph[2][a:b] holds g.cols[a+1 .. b].   *)
(* Floating-point values are modelled by exact rationals (a numerator over *)
(* a stated denominator); rounding error of the floats is not modelled.    *)
(***************************************************************************)
EXTENDS Integers, Sequences, FiniteSets, TLC

VARIABLES
    graph,      \* the CSR graph: [data, rows, cols] (graph[0], graph[1], graph[2])
    k,          \* the number of seeds asked for
    \* random_reverse_reachable_set
    wpc, start, stack, visited, sampled, fired, expanded,
    \* kpt_estimation
    kpc, ki, kj, cum_sum, kpt, tried,
    \* find_k_seeds
    fpc, lambda_var, theta_var, seeds,
    \* node_selection
    spc, theta_in, mem, theta, num_rows_per_batch, num_batches, bi,
    num_rows_processed, R, S_k, sj, batches, pick_log

vars == <<graph, k, wpc, start, stack, visited, sampled, fired, expanded,
          kpc, ki, kj, cum_sum, kpt, tried,
          fpc, lambda_var, theta_var, seeds,
          spc, theta_in, mem, theta, num_rows_per_batch, num_batches, bi,
          num_rows_processed, R, S_k, sj, batches, pick_log>>

walkVars == <<wpc, start, stack, visited, sampled, fired, expanded>>
kptVars  == <<kpc, ki, kj, cum_sum, kpt, tried>>
fksVars  == <<fpc, lambda_var, theta_var, seeds>>
selVars  == <<spc, theta_in, mem, theta, num_rows_per_batch, num_batches, bi,
              num_rows_processed, R, S_k, sj, batches, pick_log>>

---------------------------------------------------------------------------
(* Bounds of the model.                                                    *)

\* Largest node count of the graphs the walk is run on.
MaxN == 3
\* Largest edge count of the graphs the walk is run on.
MaxM == 2
\* Probabilities and uniform draws are multiples of 1/PDen: an edge
\* probability is p/PDen with p in 0..PDen, a draw of random.random() is
\* u/PDen with u in 0..PDen-1 (a value of [0, 1)).
PDen == 2

Min(a, b) == IF a <= b THEN a ELSE b

\* math.ceil(a / b) for integers a >= 0, b > 0.
CeilDiv(a, b) == (a + b - 1) \div b

RECURSIVE Pow(_, _)
Pow(b, e) == IF e <= 0 THEN 1 ELSE b * Pow(b, e - 1)

---------------------------------------------------------------------------
(* The graph: compressed sparse row.                                       *)

\* n = len(graph[1]) - 1
NodeCount(g) == Len(g.rows) - 1
\* m = len(graph[0])
EdgeCount(g) == Len(g.data)
Nodes(g) == 0 .. (NodeCount(g) - 1)

\* The edge probabilities of the graphs: 0, 1/PDen and 1.
ProbValues == {0, 1, PDen}

\* Every CSR graph of n nodes and m edges: row offsets from 0 to m that do
\* not decrease, a valid node id for every edge, a probability for every edge.
CsrGraphs(n, m) ==
    { [data |-> d, rows |-> r, cols |-> c] :
        d \in [1..m -> ProbValues],
        r \in { x \in [1..(n + 1) -> 0..m] :
                  /\ x[1] = 0
                  /\ x[n + 1] = m
                  /\ \A i \in 1..n : x[i] <= x[i + 1] },
        c \in [1..m -> 0..(n - 1)] }

WalkGraphs == UNION { CsrGraphs(n, m) : n \in 1..MaxN, m \in 0..MaxM }

\* The 1-based indices of the edges in graph[2][value_start:value_end] for curr.
OutEdges(g, curr) ==
    LET value_start == g.rows[curr + 1]
        value_end   == g.rows[curr + 2]
    IN  [i \in 1..(value_end - value_start) |-> value_start + i]

---------------------------------------------------------------------------
(* random_reverse_reachable_set, one loop iteration per step.              *)

\* random.random() < probabilities[i]
FiresLe(u, p) == u <= p
Fires(u, p) == u < p

\* if curr not in visited
ShouldExpandAlways(curr, seen) == TRUE
ShouldExpand(curr, seen) == curr \notin seen

\* The nodes appended to the stack by the for loop over curr's edges, in
\* order, when random.random() returns u[e] / PDen for edge e.
Pushed(g, curr, u) ==
    LET hits == SelectSeq(OutEdges(g, curr), LAMBDA e : Fires(u[e], g.data[e]))
    IN  [i \in 1..Len(hits) |-> g.cols[hits[i]]]

InitWalkVars ==
    /\ wpc = "begin"
    /\ start = -1
    /\ stack = << >>
    /\ visited = {}
    /\ sampled = {}
    /\ fired = {}
    /\ expanded = << >>

\* start = random.choice(range(n)); stack = [start]; visited = set()
ChooseStart ==
    /\ wpc = "begin"
    /\ \E s \in Nodes(graph) :
         /\ start' = s
         /\ stack' = <<s>>
    /\ visited' = {}
    /\ sampled' = {}
    /\ fired' = {}
    /\ expanded' = [v \in Nodes(graph) |-> 0]
    /\ wpc' = "loop"
    /\ UNCHANGED <<graph, k, kptVars, fksVars, selVars>>

\* One iteration that pops a node not yet visited and samples its edges.
PopExpand ==
    /\ wpc = "loop"
    /\ stack # << >>
    /\ LET curr == stack[Len(stack)]
           rest == SubSeq(stack, 1, Len(stack) - 1)
           out  == OutEdges(graph, curr)
           outs == { out[i] : i \in 1..Len(out) }
       IN  /\ ShouldExpand(curr, visited)
           /\ visited' = visited \cup {curr}
           /\ expanded' = [expanded EXCEPT ![curr] = @ + 1]
           /\ sampled' = sampled \cup outs
           /\ \E u \in [outs -> 0..(PDen - 1)] :
                /\ stack' = rest \o Pushed(graph, curr, u)
                /\ fired' = fired \cup { e \in outs : Fires(u[e], graph.data[e]) }
    /\ UNCHANGED <<graph, k, wpc, start, kptVars, fksVars, selVars>>

\* One iteration that pops a node already visited.
PopSkip ==
    /\ wpc = "loop"
    /\ stack # << >>
    /\ ~ShouldExpand(stack[Len(stack)], visited)
    /\ stack' = SubSeq(stack, 1, Len(stack) - 1)
    /\ UNCHANGED <<graph, k, wpc, start, visited, sampled, fired, expanded,
                   kptVars, fksVars, selVars>>

\* while stack: ... return visited
WalkReturn ==
    /\ wpc = "loop"
    /\ stack = << >>
    /\ wpc' = "done"
    /\ UNCHANGED <<graph, k, start, stack, visited, sampled, fired, expanded,
                   kptVars, fksVars, selVars>>

---------------------------------------------------------------------------
(* random_reverse_reachable_set as a function of its random draws: the     *)
(* sets it can return.                                                     *)

RECURSIVE WalkResults(_, _, _)
WalkResults(g, stk, seen) ==
    IF stk = << >> THEN {seen}
    ELSE LET curr == stk[Len(stk)]
             rest == SubSeq(stk, 1, Len(stk) - 1)
             out  == OutEdges(g, curr)
             outs == { out[i] : i \in 1..Len(out) }
         IN  IF ~ShouldExpand(curr, seen)
             THEN WalkResults(g, rest, seen)
             ELSE UNION { WalkResults(g, rest \o Pushed(g, curr, u), seen \cup {curr}) :
                            u \in [outs -> 0..(PDen - 1)] }

RRSets(g) == UNION { WalkResults(g, <<s>>, {}) : s \in Nodes(g) }

\* width(graph, nodes): the sum of the out-degrees of nodes.
RECURSIVE Width(_, _)
Width(g, nodes) ==
    IF nodes = {} THEN 0
    ELSE LET node == CHOOSE v \in nodes : TRUE
         IN  (g.rows[node + 2] - g.rows[node + 1]) + Width(g, nodes \ {node})

---------------------------------------------------------------------------
(* kpt_estimation.                                                         *)

\* Largest number of edges of the graphs find_k_seeds is run on.
MaxPathEdges == 2
\* Largest k find_k_seeds and node_selection are run with.
MaxK == 2

L_CONSTANT == 1
\* EPSILON_CONSTANT = 0.2 = EPSILON_NUM / EPSILON_DEN
EPSILON_NUM == 1
EPSILON_DEN == 5

\* Logarithms are kept as integers: floor(value * Scale).
Scale == Pow(10, 5)

\* math.log(x), for the x the model evaluates it at.
LnScaled(x) ==
    CASE x = 1  -> 0
      [] x = 2  -> 69314
      [] x = 3  -> 109861
      [] x = 4  -> 138629
      [] x = 5  -> 160943
      [] x = 6  -> 179175
      [] x = 8  -> 207944
      [] x = 10 -> 230258
      [] x = 28 -> 333220
      [] x = 56 -> 402535
      [] x = 70 -> 424849

\* math.log(math.log(n, 2)), for the n whose estimation runs a round.
LnLog2Scaled(n) ==
    CASE n = 3 -> 46056
      [] n = 4 -> 69314
      [] n = 5 -> 84239
      [] n = 8 -> 109861

\* int(math.log(n, 2)) for n >= 1
RECURSIVE IntLog2(_)
IntLog2(n) == IF n < 2 THEN 0 ELSE 1 + IntLog2(n \div 2)

\* ceil(log2(n)) for n >= 1
RECURSIVE CeilLog2(_)
CeilLog2(n) == IF n < 2 THEN 0 ELSE 1 + CeilLog2((n + 1) \div 2)

\* The last i of range(1, int(math.log(n, 2))).
LastRoundCeil(n) == CeilLog2(n) - 1
LastRound(n) == IntLog2(n) - 1

\* ci = 6 * L_CONSTANT * math.log(n) + 6 * math.log(math.log(n, 2)) * 2**i
CiScaled(n, i) == 6 * L_CONSTANT * LnScaled(n) + 6 * LnLog2Scaled(n) * Pow(2, i)
\* int(ci)
SampleCount(n, i) == CiScaled(n, i) \div Scale

\* cum_sum is kept as a numerator over m**k.
SumDen(g, kk) == Pow(EdgeCount(g), kk)
\* k_r = 1 - (1 - (w_r / m))**k, as a numerator over m**k
KrNum(w_r, m, kk) == Pow(m, kk) - Pow(m - w_r, kk)

\* (cum_sum / ci) > 1/(2**i)
TestPasses(n, i, cum, den) == cum * Pow(2, i) * Scale > CiScaled(n, i) * den

\* n * cum_sum / (2 * ci), as a fraction
EstimateNoAverage(n, i, cum, den) == [num |-> n * cum, den |-> 2 * den]
Estimate(n, i, cum, den) ==
    [num |-> n * cum * Scale, den |-> 2 * CiScaled(n, i) * den]

\* 1.0
Fallback == [num |-> 1, den |-> 1]
Unset == [num |-> 0, den |-> 0]

\* The stability test of round i on the sum cum / m**k, as the estimator's
\* description states it: sum_i / c_i > 1 / 2^i.
StabilityTest(g, kk, i, cum) ==
    cum * Pow(2, i) * Scale
        > (6 * L_CONSTANT * LnScaled(NodeCount(g))
             + 6 * LnLog2Scaled(NodeCount(g)) * Pow(2, i)) * Pow(EdgeCount(g), kk)

InitKptVars ==
    /\ kpc = "begin"
    /\ ki = 0
    /\ kj = 0
    /\ cum_sum = 0
    /\ kpt = Unset
    /\ tried = << >>

\* n = len(graph[1]) - 1; for i in range(1, int(math.log(n, 2))): the first
\* round, the return of 1.0 when the range is empty, or math.log's ValueError.
KptEnter ==
    /\ fpc = "kpt"
    /\ kpc = "begin"
    /\ LET n == NodeCount(graph)
       IN  IF n <= 0
           THEN /\ kpc' = "raised"
                /\ fpc' = "raised"
                /\ UNCHANGED <<ki, kj, cum_sum, kpt>>
           ELSE IF LastRound(n) < 1
           THEN /\ kpc' = "returned"
                /\ kpt' = Fallback
                /\ UNCHANGED <<fpc, ki, kj, cum_sum>>
           ELSE /\ kpc' = "sample"
                /\ ki' = 1
                /\ kj' = 0
                /\ cum_sum' = 0
                /\ UNCHANGED <<fpc, kpt>>
    /\ UNCHANGED <<graph, k, tried, lambda_var, theta_var, seeds, walkVars, selVars>>

\* One iteration of for j in range(int(ci)): an RR set, its width, k_r.
KptSample ==
    /\ fpc = "kpt"
    /\ kpc = "sample"
    /\ kj < SampleCount(NodeCount(graph), ki)
    /\ \E w_r \in { Width(graph, rr) : rr \in RRSets(graph) } :
         LET m == EdgeCount(graph)
         IN  IF m = 0
             THEN /\ kpc' = "raised"
                  /\ fpc' = "raised"
                  /\ UNCHANGED <<kj, cum_sum>>
             ELSE /\ cum_sum' = cum_sum + KrNum(w_r, m, k)
                  /\ kj' = kj + 1
                  /\ UNCHANGED <<kpc, fpc>>
    /\ UNCHANGED <<graph, k, ki, kpt, tried, lambda_var, theta_var, seeds,
                   walkVars, selVars>>

\* The round's samples are drawn and the test passes: return the estimate.
KptPass ==
    /\ fpc = "kpt"
    /\ kpc = "sample"
    /\ kj = SampleCount(NodeCount(graph), ki)
    /\ TestPasses(NodeCount(graph), ki, cum_sum, SumDen(graph, k))
    /\ kpt' = Estimate(NodeCount(graph), ki, cum_sum, SumDen(graph, k))
    /\ kpc' = "returned"
    /\ tried' = Append(tried, [i |-> ki, passed |-> StabilityTest(graph, k, ki, cum_sum)])
    /\ UNCHANGED <<graph, k, ki, kj, cum_sum, fksVars, walkVars, selVars>>

\* The test fails and the range has a next i.
KptNextRound ==
    /\ fpc = "kpt"
    /\ kpc = "sample"
    /\ kj = SampleCount(NodeCount(graph), ki)
    /\ ~TestPasses(NodeCount(graph), ki, cum_sum, SumDen(graph, k))
    /\ ki < LastRound(NodeCount(graph))
    /\ ki' = ki + 1
    /\ kj' = 0
    /\ cum_sum' = 0
    /\ tried' = Append(tried, [i |-> ki, passed |-> StabilityTest(graph, k, ki, cum_sum)])
    /\ UNCHANGED <<graph, k, kpc, kpt, fksVars, walkVars, selVars>>

\* The test fails and the range is exhausted: return 1.0.
KptFallback ==
    /\ fpc = "kpt"
    /\ kpc = "sample"
    /\ kj = SampleCount(NodeCount(graph), ki)
    /\ ~TestPasses(NodeCount(graph), ki, cum_sum, SumDen(graph, k))
    /\ ki >= LastRound(NodeCount(graph))
    /\ kpt' = Fallback
    /\ kpc' = "returned"
    /\ tried' = Append(tried, [i |-> ki, passed |-> StabilityTest(graph, k, ki, cum_sum)])
    /\ UNCHANGED <<graph, k, ki, kj, cum_sum, fksVars, walkVars, selVars>>

---------------------------------------------------------------------------
(* node_selection: the batch loop.                                         *)

\* Largest node count of the graphs node_selection is run on.
MaxBatchNodes == 2
\* Largest node count of the graphs the selection loop is run on by itself.
MaxSelNodes == 3
\* Largest theta (after math.ceil) node_selection is run with.
MaxTheta == 3
\* theta arrives as a float: theta_in / ThetaDen.
ThetaDen == 2
\* MEM_BYTES = mem.hi * MemUnit + mem.lo with MemUnit = 2 * 1024**3 * 10**9
\* bytes and mem.lo < MemUnit: mem.hi is 0 on any machine that exists.
MaxMemHi == 4
MaxMemLo == 2
\* Largest number of samples the selection loop is run on by itself.
MaxSamples == 2

MemValues ==
    { [hi |-> h, lo |-> l] : h \in 0..MaxMemHi, l \in 0..MaxMemLo }
        \ { [hi |-> 0, lo |-> 0] }

\* math.ceil(theta)
CeilTheta(t_in) == CeilDiv(t_in, ThetaDen)

\* math.ceil(MEM_GIGABYTES / 2 / num_nodes * 1e-9), with
\* MEM_GIGABYTES = MEM_BYTES / 1024**3: the quotient MEM_BYTES / MemUnit is
\* mem.hi plus a fraction that is positive iff mem.lo > 0.
RowsPerBatch(m, num_nodes) ==
    CeilDiv(m.hi + (IF m.lo > 0 THEN 1 ELSE 0), num_nodes)

\* math.ceil(theta / num_rows_per_batch)
NumBatchesFloor(t, rows_per_batch) == t \div rows_per_batch
NumBatches(t, rows_per_batch) == CeilDiv(t, rows_per_batch)

\* min(num_rows_per_batch, theta - num_rows_processed)
BatchRows(rows_per_batch, t, processed) == Min(rows_per_batch, t - processed)

\* The complete graph on n nodes, every edge of probability 1/PDen: every
\* set of nodes that holds its start node is one of its RR sets.
CompleteGraph(n) ==
    [data |-> [e \in 1..(n * (n - 1)) |-> 1],
     rows |-> [i \in 1..(n + 1) |-> (i - 1) * (n - 1)],
     cols |-> [e \in 1..(n * (n - 1)) |->
                 LET v == (e - 1) \div (n - 1)
                     j == (e - 1) % (n - 1)
                 IN  IF j < v THEN j ELSE j + 1]]

BatchGraphs == { CompleteGraph(n) : n \in 1..MaxBatchNodes }
SelGraphs == { CompleteGraph(n) : n \in 1..MaxSelNodes }

\* What the generate_rr_sets kernel leaves in R: row r is the membership of
\* one RR set, a set of nodes of the graph that holds at least its start
\* node (on CompleteGraph(n) every such set is an RR set). R is read as the
\* mapping from row index to the set of the nodes of that row.
KernelRows(g, num_rows) == [0..(num_rows - 1) -> (SUBSET Nodes(g)) \ {{}}]

InitSelVars ==
    /\ spc = "begin"
    /\ theta = 0
    /\ num_rows_per_batch = 0
    /\ num_batches = 0
    /\ bi = 0
    /\ num_rows_processed = 0
    /\ R = << >>
    /\ S_k = << >>
    /\ sj = 0
    /\ batches = << >>
    /\ pick_log = << >>

\* theta = math.ceil(theta) ... num_rows_processed = 0
SelBegin ==
    /\ spc = "begin"
    /\ theta' = CeilTheta(theta_in)
    /\ num_rows_per_batch' = RowsPerBatch(mem, NodeCount(graph))
    /\ num_batches' = NumBatches(theta', num_rows_per_batch')
    /\ num_rows_processed' = 0
    /\ bi' = 0
    /\ spc' = "batches"
    /\ UNCHANGED <<graph, k, theta_in, mem, R, S_k, sj, batches, pick_log,
                   walkVars, kptVars, fksVars>>

\* One iteration of for i in range(num_batches): R is a new array.
SelBatch ==
    /\ spc = "batches"
    /\ bi < num_batches
    /\ LET num_rows_to_process ==
               BatchRows(num_rows_per_batch, theta, num_rows_processed)
       IN  /\ R' \in KernelRows(graph, num_rows_to_process)
           /\ num_rows_processed' = num_rows_processed + num_rows_to_process
           /\ batches' = Append(batches, num_rows_to_process)
    /\ bi' = bi + 1
    /\ UNCHANGED <<graph, k, spc, theta_in, mem, theta, num_rows_per_batch,
                   num_batches, S_k, sj, pick_log, walkVars, kptVars, fksVars>>

\* The range is exhausted: S_k = []
SelLoopExit ==
    /\ spc = "batches"
    /\ bi >= num_batches
    /\ S_k' = << >>
    /\ sj' = 0
    /\ spc' = "select"
    /\ UNCHANGED <<graph, k, theta_in, mem, theta, num_rows_per_batch,
                   num_batches, bi, num_rows_processed, R, batches, pick_log,
                   walkVars, kptVars, fksVars>>

---------------------------------------------------------------------------
(* find_most_common_node and the selection loop of node_selection.         *)

\* The members of a finite set of integers in ascending order.
RECURSIVE Ascending(_)
Ascending(S) ==
    IF S = {} THEN << >>
    ELSE LET lo == CHOOSE x \in S : \A y \in S : x <= y
         IN  <<lo>> \o Ascending(S \ {lo})

\* The (set_id, node) pairs in the order the two for loops visit them:
\* rr_sets.items() in row order, the nodes of a row in ascending order.
RECURSIVE ScanOrder(_, _)
ScanOrder(rr_sets, ids) ==
    IF ids = << >> THEN << >>
    ELSE LET set_id  == ids[1]
             members == Ascending(rr_sets[set_id])
         IN  [i \in 1..Len(members) |-> [set_id |-> set_id, node |-> members[i]]]
                 \o ScanOrder(rr_sets, Tail(ids))

\* if counts[node] > maximum
IsNewMaximum(count, maximum) == count > maximum

\* maximum = counts[node]
NextMaximum(count, maximum) == count

\* The loop body over the pairs from position idx on; the state is counts,
\* maximum and most_common_node.
RECURSIVE ScanFrom(_, _, _, _, _)
ScanFrom(pairs, idx, counts, maximum, most_common_node) ==
    IF idx > Len(pairs) THEN most_common_node
    ELSE LET node  == pairs[idx].node
             count == counts[node] + 1
             next  == [counts EXCEPT ![node] = count]
         IN  IF IsNewMaximum(count, maximum)
             THEN ScanFrom(pairs, idx + 1, next, NextMaximum(count, maximum), node)
             ELSE ScanFrom(pairs, idx + 1, next, maximum, most_common_node)

\* find_most_common_node(rr_sets): the node and exists_in_set[node].
FindMostCommonNode(rr_sets) ==
    LET pairs == ScanOrder(rr_sets, Ascending(DOMAIN rr_sets))
        seen  == { pairs[i].node : i \in 1..Len(pairs) }
        node  == ScanFrom(pairs, 1, [v \in seen |-> 0], 0, 0)
    IN  [node |-> node,
         sets |-> { set_id \in DOMAIN rr_sets : node \in rr_sets[set_id] }]

\* for set_id in sets_to_remove: del R[set_id]
RemoveSets(rr_sets, sets_to_remove) ==
    [set_id \in (DOMAIN rr_sets) \ sets_to_remove |-> rr_sets[set_id]]

\* One iteration of for j in range(k), on an R that is a mapping from
\* sample id to the set of the sample's nodes (the type items() and del need).
SelPick ==
    /\ spc = "select"
    /\ sj < k
    /\ LET found == FindMostCommonNode(R)
       IN  /\ S_k' = Append(S_k, found.node)
           /\ R' = RemoveSets(R, found.sets)
           /\ pick_log' = Append(pick_log, [before |-> R, node |-> found.node])
    /\ sj' = sj + 1
    /\ UNCHANGED <<graph, k, spc, theta_in, mem, theta, num_rows_per_batch,
                   num_batches, bi, num_rows_processed, batches,
                   walkVars, kptVars, fksVars>>

\* The first iteration of for j in range(k) on the R the batch loop left:
\* R is the numpy array of line 107, an ndarray has no items(), and
\* rr_sets.items() in find_most_common_node raises AttributeError.
SelPickRaises ==
    /\ spc = "select"
    /\ sj < k
    /\ spc' = "raised"
    /\ UNCHANGED <<graph, k, theta_in, mem, theta, num_rows_per_batch,
                   num_batches, bi, num_rows_processed, R, S_k, sj, batches,
                   pick_log, walkVars, kptVars, fksVars>>

\* return S_k
SelReturn ==
    /\ spc = "select"
    /\ sj >= k
    /\ spc' = "done"
    /\ UNCHANGED <<graph, k, theta_in, mem, theta, num_rows_per_batch,
                   num_batches, bi, num_rows_processed, R, S_k, sj, batches,
                   pick_log, walkVars, kptVars, fksVars>>

---------------------------------------------------------------------------
(* find_k_seeds.                                                           *)

\* Node counts of the graphs find_k_seeds is run on.
SeedNodeCounts == {0, 1, 3, 4, 5, 8}

\* n nodes, the edges v -> v + 1 for v < e, each of probability p / PDen.
PathGraph(n, e, p) ==
    [data |-> [j \in 1..e |-> p],
     rows |-> [i \in 1..(n + 1) |-> Min(i - 1, e)],
     cols |-> [j \in 1..e |-> j]]

SeedGraphs ==
    UNION { { PathGraph(n, e, p) :
                e \in { x \in 0..MaxPathEdges : x = 0 \/ x < n }, p \in ProbValues } :
            n \in SeedNodeCounts }

\* scipy.special.comb(n, k): 0 when k > n
RECURSIVE Comb(_, _)
Comb(n, kk) ==
    IF kk > n THEN 0
    ELSE IF kk <= 0 THEN 1
    ELSE (Comb(n - 1, kk - 1) * n) \div kk

\* (8.0 + 2 * e) * n * (l * math.log(n) + math.log(comb(n, k)) + math.log(2))
\* * e ** -2, scaled by Scale
CalculateLambda(n, kk, l) ==
    ((8 * EPSILON_DEN + 2 * EPSILON_NUM) * EPSILON_DEN * n
        * (l * LnScaled(n) + LnScaled(Comb(n, kk)) + LnScaled(2)))
    \div (EPSILON_NUM * EPSILON_NUM)

InitFksVars ==
    /\ fpc = "kpt"
    /\ lambda_var = 0
    /\ theta_var = [lambda |-> 0, kpt |-> Unset]
    /\ seeds = << >>

\* lambda_var = calculate_lambda(...): math.log(comb(n, k)) raises a
\* ValueError when comb(n, k) is 0.
FksLambda ==
    /\ fpc = "kpt"
    /\ kpc = "returned"
    /\ IF Comb(NodeCount(graph), k) = 0
       THEN /\ fpc' = "raised"
            /\ UNCHANGED lambda_var
       ELSE /\ lambda_var' = CalculateLambda(NodeCount(graph), k, L_CONSTANT)
            /\ fpc' = "theta"
    /\ UNCHANGED <<graph, k, theta_var, seeds, walkVars, kptVars, selVars>>

\* theta = lambda_var / kpt: the quotient is kept as its two operands.
FksTheta ==
    /\ fpc = "theta"
    /\ IF kpt.num = 0
       THEN /\ fpc' = "raised"
            /\ UNCHANGED theta_var
       ELSE /\ theta_var' = [lambda |-> lambda_var, kpt |-> kpt]
            /\ fpc' = "select"
    /\ UNCHANGED <<graph, k, lambda_var, seeds, walkVars, kptVars, selVars>>

\* return node_selection(graph, k, theta): theta > 0, so the batch loop
\* runs; for k = 0 the selection loop has no iteration and [] is returned,
\* for k >= 1 its first iteration raises (SelPickRaises).
FksNodeSelection ==
    /\ fpc = "select"
    /\ theta_var.lambda > 0
    /\ IF k >= 1
       THEN /\ fpc' = "raised"
            /\ UNCHANGED seeds
       ELSE /\ seeds' = << >>
            /\ fpc' = "done"
    /\ UNCHANGED <<graph, k, lambda_var, theta_var, walkVars, kptVars, selVars>>

---------------------------------------------------------------------------
(* The specifications.                                                     *)

IdleWalk == wpc = "idle" /\ start = -1 /\ stack = << >> /\ visited = {}
            /\ sampled = {} /\ fired = {} /\ expanded = << >>
IdleKpt  == kpc = "idle" /\ ki = 0 /\ kj = 0 /\ cum_sum = 0 /\ kpt = Unset
            /\ tried = << >>
IdleFks  == fpc = "idle" /\ lambda_var = 0
            /\ theta_var = [lambda |-> 0, kpt |-> Unset] /\ seeds = << >>
IdleSel  == spc = "idle" /\ theta_in = 0 /\ mem = [hi |-> 0, lo |-> 1]
            /\ theta = 0 /\ num_rows_per_batch = 0 /\ num_batches = 0
            /\ bi = 0 /\ num_rows_processed = 0 /\ R = << >> /\ S_k = << >>
            /\ sj = 0 /\ batches = << >> /\ pick_log = << >>

\* random_reverse_reachable_set(graph) on every CSR graph of the bounds.
InitWalk ==
    /\ graph \in WalkGraphs
    /\ k = 0
    /\ InitWalkVars
    /\ IdleKpt /\ IdleFks /\ IdleSel

NextWalk == ChooseStart \/ PopExpand \/ PopSkip \/ WalkReturn

SpecWalk == InitWalk /\ [][NextWalk]_vars

\* The loop runs on: nothing but its own condition ends it.
FairWalk == InitWalk /\ [][NextWalk]_vars /\ WF_vars(NextWalk)

\* find_k_seeds(graph, k) on a machine of mem.hi = 0.
InitSeeds ==
    /\ graph \in SeedGraphs
    /\ k \in 0..MaxK
    /\ InitKptVars
    /\ InitFksVars
    /\ IdleWalk /\ IdleSel

NextSeeds ==
    \/ KptEnter \/ KptSample \/ KptPass \/ KptNextRound \/ KptFallback
    \/ FksLambda \/ FksTheta \/ FksNodeSelection

SpecSeeds == InitSeeds /\ [][NextSeeds]_vars

\* node_selection(graph, k, theta) for every theta, k and memory size of the
\* bounds.
InitSel ==
    /\ graph \in BatchGraphs
    /\ k \in 0..MaxK
    /\ theta_in \in 1..(ThetaDen * MaxTheta)
    /\ mem \in MemValues
    /\ InitSelVars
    /\ IdleWalk /\ IdleKpt /\ IdleFks

NextSel == SelBegin \/ SelBatch \/ SelLoopExit \/ SelPickRaises \/ SelReturn

SpecSel == InitSel /\ [][NextSel]_vars

\* The selection loop of node_selection and find_most_common_node on every
\* sample collection of the bounds: a mapping of the ids 0 .. r-1 to node
\* sets, for r <= MaxSamples.
InitGreedy ==
    /\ graph \in SelGraphs
    /\ k \in 0..MaxK
    /\ R \in UNION { KernelRows(graph, r) : r \in 0..MaxSamples }
    /\ spc = "select"
    /\ S_k = << >>
    /\ sj = 0
    /\ pick_log = << >>
    /\ theta_in = 0 /\ mem = [hi |-> 0, lo |-> 1]
    /\ theta = 0 /\ num_rows_per_batch = 0 /\ num_batches = 0
    /\ bi = 0 /\ num_rows_processed = 0 /\ batches = << >>
    /\ IdleWalk /\ IdleKpt /\ IdleFks

NextGreedy == SelPick \/ SelReturn

SpecGreedy == InitGreedy /\ [][NextGreedy]_vars

---------------------------------------------------------------------------
(* The sequential RR-set walk: C6 and C10.                                 *)

\* The node whose slice of the edge arrays holds edge e.
EdgeSource(g, e) ==
    CHOOSE v \in Nodes(g) : g.rows[v + 1] < e /\ e <= g.rows[v + 2]

\* The nodes reachable from the nodes of S along the edges of E.
RECURSIVE ReachableVia(_, _, _)
ReachableVia(g, S, E) ==
    LET step == S \cup { g.cols[e] : e \in { x \in E : EdgeSource(g, x) \in S } }
    IN  IF step = S THEN S ELSE ReachableVia(g, step, E)

AllEdges(g) == 1..EdgeCount(g)

\* C6: the set the walk returns is the set of the nodes reachable from the
\* start node along the edges that fired, where exactly the edges of the
\* expanded nodes were sampled, an edge of probability 0 never fired and an
\* edge of probability 1 always did; it holds the start node, is {start}
\* when every probability is 0, and is everything reachable in the graph
\* when every probability is 1.
RRSetIsFiredReachability ==
    wpc = "done" =>
        /\ start \in visited
        /\ sampled = { e \in AllEdges(graph) : EdgeSource(graph, e) \in visited }
        /\ fired \subseteq sampled
        /\ \A e \in sampled : /\ graph.data[e] = 0 => e \notin fired
                              /\ graph.data[e] = PDen => e \in fired
        /\ visited = ReachableVia(graph, {start}, fired)
        /\ (\A e \in AllEdges(graph) : graph.data[e] = 0) => visited = {start}
        /\ (\A e \in AllEdges(graph) : graph.data[e] = PDen)
              => visited = ReachableVia(graph, {start}, AllEdges(graph))

\* A finished walk that reached a second node over a fired edge of a
\* probability strictly between 0 and 1, and sampled an edge of such a
\* probability that did not fire.
RRSetWitness ==
    /\ wpc = "done"
    /\ Cardinality(visited) >= 2
    /\ \E e \in fired : graph.data[e] < PDen /\ graph.cols[e] # start
    /\ \E e \in sampled : e \notin fired /\ graph.data[e] > 0

\* C10: the walk terminates: the stack becomes empty and the function
\* returns; until then every node on the stack is a node of the graph, no
\* node is expanded twice, and the visited set never loses a node.
WalkTerminates ==
    /\ <>(wpc = "done" /\ stack = << >>)
    /\ [](/\ \A i \in 1..Len(stack) : stack[i] \in Nodes(graph)
          /\ \A v \in DOMAIN expanded : expanded[v] <= 1
          /\ visited \subseteq Nodes(graph))
    /\ [][visited \subseteq visited']_vars

\* A finished walk on a cycle: a fired edge led from a second node back to
\* the start node, which was popped again after it had been visited.
WalkTerminatesWitness ==
    /\ wpc = "done"
    /\ Cardinality(visited) >= 2
    /\ \E e \in fired : graph.cols[e] = start /\ EdgeSource(graph, e) # start

---------------------------------------------------------------------------
(* kpt_estimation and find_k_seeds: C8, C9 and C5.                         *)

\* The r with 2^r <= n < 2^(r+1), for n >= 1.
FloorLog2Of(n) == CHOOSE r \in 0..n : Pow(2, r) <= n /\ n < Pow(2, r + 1)
\* The least r with n <= 2^r, for n >= 1.
CeilLog2Of(n) == CHOOSE r \in 0..n : n <= Pow(2, r) /\ (r = 0 \/ Pow(2, r - 1) < n)

\* C8: for n >= 1 and k >= 1 the value kpt_estimation returns is >= 0 and
\* <= n, and it is 1.0 for a graph of one node.
KptWithinBounds ==
    (kpc = "returned" /\ k >= 1 /\ NodeCount(graph) >= 1) =>
        /\ kpt.den > 0
        /\ kpt.num >= 0
        /\ CeilDiv(kpt.num, NodeCount(graph)) <= kpt.den
        /\ NodeCount(graph) = 1 => kpt = Fallback

\* An estimate (not the fallback) was returned for k >= 1.
KptWithinBoundsWitness ==
    /\ kpc = "returned"
    /\ k >= 1
    /\ kpt # Fallback
    /\ kpt.num > 0

\* The rounds tried so far are 1, 2, ... in order, none beyond `last`, and
\* only the latest may have passed its stability test; a returned estimate
\* is that of a passing latest round, and the fallback is returned exactly
\* when every round up to `last` has run and failed.
RoundsUpTo(last) ==
    LET n == NodeCount(graph)
        t == Len(tried)
    IN  /\ \A x \in 1..t : tried[x].i = x /\ x <= last
        /\ \A x \in 1..(t - 1) : ~tried[x].passed
        /\ kpc = "sample" => (ki = t + 1 /\ ki <= last /\ (t > 0 => ~tried[t].passed))
        /\ kpc = "returned" =>
             IF t > 0 /\ tried[t].passed
             THEN /\ ki = t
                  /\ kpt = [num |-> n * cum_sum * Scale,
                            den |-> 2 * CiScaled(n, t) * Pow(EdgeCount(graph), k)]
             ELSE /\ kpt = Fallback
                  /\ t = (IF last >= 0 THEN last ELSE 0)

\* C9, with the last round as the code computes it: the rounds are
\* i = 1 .. floor(log2(n)) - 1, in increasing order; the estimate of the
\* first passing round is returned and no later round runs; the fallback
\* 1.0 is returned iff none of those rounds passes.
KptRoundsUpToFloorLog2 ==
    NodeCount(graph) >= 1 => RoundsUpTo(FloorLog2Of(NodeCount(graph)) - 1)

\* C9: the rounds are i = 1 .. ceil(log2(n)) - 1, in increasing order; the
\* estimate of the first passing round is returned and no later round runs;
\* the fallback 1.0 is returned iff none of those rounds passes.
KptRoundsUpToCeilLog2 ==
    NodeCount(graph) >= 1 => RoundsUpTo(CeilLog2Of(NodeCount(graph)) - 1)

\* On 5 nodes round 1 failed and the fallback was returned without a round 2;
\* floor(log2(5)) - 1 = 1 and ceil(log2(5)) - 1 = 2.
KptRoundsWitness ==
    /\ kpc = "returned"
    /\ NodeCount(graph) = 5
    /\ Len(tried) = 1
    /\ kpt = Fallback

\* C5: on k <= 0 or n = 0 find_k_seeds neither raises nor returns as on any
\* other input (it reports DegenerateInput), holds no seed, and never
\* divides by a KPT <= 0.
DegenerateInputReported ==
    (k <= 0 \/ NodeCount(graph) = 0) =>
        /\ fpc \notin {"raised", "done"}
        /\ seeds = << >>
        /\ fpc = "select" => theta_var.kpt.num > 0

---------------------------------------------------------------------------
(* node_selection: C1, C2, C7, C3 and C4.                                  *)

RECURSIVE SumFirst(_, _)
SumFirst(seq, count) == IF count <= 0 THEN 0 ELSE seq[count] + SumFirst(seq, count - 1)

\* C1: every batch has min(rows_per_batch, theta - rows so far) rows and at
\* least one row, and when the batch loop is left the rows generated sum to
\* theta.
BatchRowsSumToTheta ==
    spc \in {"batches", "select", "done"} =>
        /\ theta >= 1
        /\ num_rows_per_batch >= 1
        /\ \A x \in 1..Len(batches) :
             /\ batches[x] >= 1
             /\ batches[x] = Min(num_rows_per_batch, theta - SumFirst(batches, x - 1))
        /\ num_rows_processed = SumFirst(batches, Len(batches))
        /\ num_rows_processed <= theta
        /\ spc \in {"select", "done"} => num_rows_processed = theta

\* The loop was left after a full batch of several rows and a smaller last one.
BatchRowsWitness ==
    /\ spc = "select"
    /\ Len(batches) >= 2
    /\ batches[1] >= 2
    /\ batches[Len(batches)] < num_rows_per_batch

\* C2: when the selection loop starts, R holds the rows of every batch:
\* theta rows.
SelectionSeesAllRows ==
    (spc = "select" /\ sj = 0) => Cardinality(DOMAIN R) = theta

\* C7: rows_per_batch is floor(budget / bytes_per_row) with the budget half
\* of MEM_BYTES and one byte per node of a row; no batch exceeds the budget;
\* and no batch is generated when not even one row fits.
BatchWithinMemoryBudget ==
    LET n == NodeCount(graph)
    IN  spc \in {"batches", "select", "done"} =>
          /\ mem.hi = 0 => num_rows_per_batch = mem.lo \div (2 * n)
          /\ \A x \in 1..Len(batches) :
               /\ batches[x] <= num_rows_per_batch
               /\ mem.hi > 0 \/ 2 * batches[x] * n <= mem.lo
          /\ (mem.hi = 0 /\ mem.lo \div (2 * n) = 0) => batches = << >>

\* The number of the samples of rr_sets that hold node u.
CoverCount(rr_sets, u) == Cardinality({ id \in DOMAIN rr_sets : u \in rr_sets[id] })
\* The picks are made on the samples that hold none of the earlier picks.
PicksOnUncovered ==
    \A x \in 1..Len(pick_log) :
        /\ S_k[x] = pick_log[x].node
        /\ x > 1 => pick_log[x].before =
                      RemoveSets(pick_log[x - 1].before,
                                 { id \in DOMAIN pick_log[x - 1].before :
                                     pick_log[x - 1].node \in pick_log[x - 1].before[id] })

\* C3: each pick is made on the samples that hold none of the earlier
\* picks, and is the lowest node id among the nodes of the maximum count
\* over those samples.
PickedNodeIsLowestIdOfMax ==
    /\ PicksOnUncovered
    /\ \A x \in 1..Len(pick_log) :
         LET rr == pick_log[x].before
             v  == pick_log[x].node
         IN  \A u \in Nodes(graph) :
               /\ CoverCount(rr, u) <= CoverCount(rr, v)
               /\ CoverCount(rr, u) = CoverCount(rr, v) => v <= u

\* C4: no seed is appended once no sample is left; the seeds are nodes of
\* the samples, no node twice; for k = 0 the list is empty.
SelectionStopsWhenExhausted ==
    /\ \A x \in 1..Len(pick_log) : DOMAIN pick_log[x].before # {}
    /\ \A x \in 1..Len(S_k) :
         /\ \E id \in DOMAIN pick_log[1].before : S_k[x] \in pick_log[1].before[id]
         /\ \A y \in 1..Len(S_k) : S_k[x] = S_k[y] => x = y
    /\ (spc = "done" /\ k = 0) => S_k = << >>

===========================================================================
